---------------------------- MODULE Spec2Model ----------------------------
(***************************************************************************)
(* The transaction log of cngo (package logger) and its use by main:       *)
(* FileTransactionLogger's ReadEvents goroutine, the replay loop of        *)
(* initTransactionLogger, Run's worker goroutine, WritePut / WriteDelete,  *)
(* Wait, Close and Err, over a backing file held as text.                  *)
(*                                                                         *)
(* Text is a sequence of one-character strings, so that what Fprintf       *)
(* writes and what bufio.Scanner, fmt.Sscanf and url.QueryUnescape read    *)
(* back are computed character by character.                               *)
(***************************************************************************)
EXTENDS Integers, Sequences, FiniteSets, TLC

(***************************************************************************)
(* Program constants.                                                      *)
(***************************************************************************)
EventDelete == 1
EventPut == 2
\* A channel of one more place.
EventsCapLarger == 16 + 1

\* make(chan Event, 16) and make(chan error, 1) in Run.
EventsCap == 16
ErrorsCap == 1

(***************************************************************************)
(* Bounds of the model.                                                    *)
(***************************************************************************)
\* WritePut / WriteDelete calls in one run of the full specification.
MaxOps == 2
\* Process restarts (exit and start again over the same file).
MaxRestarts == 1
\* Lines of a log the replay specification starts from.
MaxLogLen == 2
\* Largest sequence number written in such a log.
MaxSeq == 3
\* Calls of Get / Put / Delete in one run of the store's specification.
MaxStoreOps == 3

(***************************************************************************)
(* Text helpers.                                                           *)
(***************************************************************************)
Digits == <<"0", "1", "2", "3", "4", "5", "6", "7", "8", "9">>
DigitSet == {Digits[i] : i \in 1..10}
DigitVal(c) == CHOOSE d \in 0..9 : Digits[d + 1] = c

HexSet == DigitSet \cup {"a", "b", "c", "d", "e", "f", "A", "B", "C", "D", "E", "F"}

\* fmt's isSpace, on the characters of the model (a line holds no newline).
IsSpace(c) == c \in {" ", "\t", "\r"}

\* The %d verb of Fprintf on an unsigned integer.
RECURSIVE FormatUint(_)
FormatUint(n) ==
    IF n < 10 THEN <<Digits[n + 1]>>
    ELSE FormatUint(n \div 10) \o <<Digits[(n % 10) + 1]>>

\* strconv.ParseUint on a run of decimal digits.
RECURSIVE ParseUint(_)
ParseUint(ds) ==
    IF ds = <<>> THEN 0
    ELSE 10 * ParseUint(SubSeq(ds, 1, Len(ds) - 1)) + DigitVal(ds[Len(ds)])

\* ss.SkipSpace: the input without its leading spaces.
RECURSIVE SkipSpace(_)
SkipSpace(s) ==
    IF s # <<>> /\ IsSpace(Head(s)) THEN SkipSpace(Tail(s)) ELSE s

\* Length of the longest prefix of s made of characters in (or, for
\* inSet = FALSE, out of) the set cs.
RECURSIVE PrefixLen(_, _, _)
PrefixLen(s, cs, inSet) ==
    IF s # <<>> /\ ((Head(s) \in cs) = inSet)
    THEN 1 + PrefixLen(Tail(s), cs, inSet)
    ELSE 0

Drop(s, n) == SubSeq(s, n + 1, Len(s))
Take(s, n) == SubSeq(s, 1, n)

RECURSIVE Flatten(_)
Flatten(ss) == IF ss = <<>> THEN <<>> ELSE Head(ss) \o Flatten(Tail(ss))

(***************************************************************************)
(* Events and the record format.                                           *)
(***************************************************************************)
\* var e Event: the zero value.
ZeroEvent == [Sequence |-> 0, EventType |-> 0, Key |-> <<>>, Value |-> <<>>]

\* fmt.Fprintf(l.file, "%d\t%d\t%s\t%s\n", l.lastSequence, e.EventType,
\* e.Key, e.Value): the key and the value are written as they are.
FormatRecord(seq, typ, key, value) ==
    FormatUint(seq) \o <<"\t">> \o FormatUint(typ) \o <<"\t">>
        \o key \o <<"\t">> \o value \o <<"\n">>

\* bufio.Scanner with ScanLines, from offset pos (0-based count of the
\* characters consumed): the next token without its line end and without
\* one trailing carriage return, and the offset after it.  A last line
\* without a newline is a token too.
ScanLine(text, pos) ==
    LET rest == Drop(text, pos)
        n    == PrefixLen(rest, {"\n"}, FALSE)
        raw  == Take(rest, n)
        tok  == IF raw # <<>> /\ raw[Len(raw)] = "\r"
                THEN Take(raw, Len(raw) - 1) ELSE raw
    IN  [tok  |-> tok,
         next |-> IF n < Len(rest) THEN pos + n + 1 ELSE pos + n]

\* One %d verb of Sscanf on input s for an unsigned integer of the given
\* width: leading spaces are skipped, then a non-empty run of digits is
\* read.  ok is FALSE at the end of the input, on a non-digit, and when the
\* number does not fit the width (only the 8 bits of EventType can be
\* exceeded by the texts of the model: its sequence numbers are small).
ScanUintVerb(s, bits) ==
    LET t == SkipSpace(s)
        n == PrefixLen(t, DigitSet, TRUE)
        v == ParseUint(Take(t, n))
    IN  IF n = 0 \/ (bits = 8 /\ v >= 256)
        THEN [ok |-> FALSE, val |-> 0, rest |-> t]
        ELSE [ok |-> TRUE, val |-> v, rest |-> Drop(t, n)]

\* One %s verb: leading spaces are skipped, then the next word is read up
\* to the next space.  ok is FALSE at the end of the input.
ScanStringVerb(s) ==
    LET t == SkipSpace(s)
        n == PrefixLen(t, {" ", "\t", "\r"}, FALSE)
    IN  IF t = <<>>
        THEN [ok |-> FALSE, val |-> <<>>, rest |-> t]
        ELSE [ok |-> TRUE, val |-> Take(t, n), rest |-> Drop(t, n)]

\* The "\t" of the format between two verbs (ss.advance): it must find a
\* space or the end of the input, and consumes the whole run of spaces.
AdvanceSpace(s) ==
    IF s # <<>> /\ ~IsSpace(Head(s))
    THEN [ok |-> FALSE, rest |-> s]
    ELSE [ok |-> TRUE, rest |-> SkipSpace(s)]

\* fmt.Sscanf(line, "%d\t%d\t%s\t%s", &e.Sequence, &e.EventType, &e.Key,
\* &e.Value): the fields are assigned from left to right and the scan stops
\* at the first failure, leaving the remaining fields as they were in ev.
\* n is the number of fields assigned (Sscanf's first result); the error
\* is n < 4.
Sscanf(line, ev) ==
    LET f1 == ScanUintVerb(line, 64)
        e1 == [ev EXCEPT !.Sequence = f1.val]
        a1 == AdvanceSpace(f1.rest)
        f2 == ScanUintVerb(a1.rest, 8)
        e2 == [e1 EXCEPT !.EventType = f2.val]
        a2 == AdvanceSpace(f2.rest)
        f3 == ScanStringVerb(a2.rest)
        e3 == [e2 EXCEPT !.Key = f3.val]
        a3 == AdvanceSpace(f3.rest)
        f4 == ScanStringVerb(a3.rest)
        e4 == [e3 EXCEPT !.Value = f4.val]
    IN  IF ~f1.ok THEN [e |-> ev, n |-> 0]
        ELSE IF ~a1.ok \/ ~f2.ok THEN [e |-> e1, n |-> 1]
        ELSE IF ~a2.ok \/ ~f3.ok THEN [e |-> e2, n |-> 2]
        ELSE IF ~a3.ok \/ ~f4.ok THEN [e |-> e3, n |-> 3]
        ELSE [e |-> e4, n |-> 4]

\* The character of a byte written as two hex digits, for the bytes the
\* model's texts can spell; any other byte reads as "?".
ByteChar(h, l) ==
    CASE <<h, l>> = <<"0", "9">> -> "\t"
      [] <<h, l>> \in {<<"0", "a">>, <<"0", "A">>} -> "\n"
      [] <<h, l>> = <<"2", "0">> -> " "
      [] <<h, l>> = <<"2", "5">> -> "%"
      [] <<h, l>> \in {<<"2", "b">>, <<"2", "B">>} -> "+"
      [] <<h, l>> = <<"4", "1">> -> "A"
      [] <<h, l>> = <<"6", "1">> -> "a"
      [] <<h, l>> = <<"7", "6">> -> "v"
      [] OTHER -> "?"

\* url.QueryUnescape: "+" becomes a space, "%XX" the byte XX, and a "%" not
\* followed by two hex digits is an error.
RECURSIVE QueryUnescape(_)
QueryUnescape(s) ==
    IF s = <<>> THEN [ok |-> TRUE, val |-> <<>>]
    ELSE IF Head(s) = "%" THEN
        IF Len(s) < 3 \/ s[2] \notin HexSet \/ s[3] \notin HexSet
        THEN [ok |-> FALSE, val |-> <<>>]
        ELSE LET r == QueryUnescape(Drop(s, 3))
             IN  [ok |-> r.ok, val |-> <<ByteChar(s[2], s[3])>> \o r.val]
    ELSE LET r == QueryUnescape(Tail(s))
         IN  [ok |-> r.ok,
              val |-> <<IF Head(s) = "+" THEN " " ELSE Head(s)>> \o r.val]

(***************************************************************************)
(* The store (KVS.M): a function from the keys present to their values.    *)
(***************************************************************************)
EmptyStore == <<>>

\* A Put that adds the value to the one the key has.
StorePutAdding(m, k, v) ==
    [x \in (DOMAIN m) \cup {k} |->
        IF x # k THEN m[x] ELSE IF k \in DOMAIN m THEN m[k] \o v ELSE v]

\* A Delete that leaves the map as it is.
StoreKeep(m, k) == m

\* KVS.Put and KVS.Delete: s.M[key] = value and delete(s.M, key).
StorePut(m, k, v) == [x \in (DOMAIN m) \cup {k} |-> IF x = k THEN v ELSE m[x]]
StoreDelete(m, k) == [x \in (DOMAIN m) \ {k} |-> m[x]]

\* The switch of the replay loop on e.EventType.
ApplyEvent(m, ev) ==
    IF ev.EventType = EventDelete THEN StoreDelete(m, ev.Key)
    ELSE IF ev.EventType = EventPut THEN StorePut(m, ev.Key, ev.Value)
    ELSE m

(***************************************************************************)
(* Inputs.                                                                 *)
(***************************************************************************)
Keys == {<<"a">>}
\* The value of the full specification's Puts: a plain word.
Values == {<<"v">>}
Writers == {1, 2}

\* No error (nil), the three errors ReadEvents sends, and the worker's.
Nil == "nil"
ErrSequence == "transaction numbers out of sequence"
ErrDecode == "value decoding failure"
ErrRead == "transaction log read failure"
ErrWrite == "cannot write to log file"

\* How an append may end: the whole record written, or an error after
\* none or all but the last of its characters were written.
WriteOutcomes == {"ok", "none", "torn"}

\* An intent on the events channel: the Event of WritePut / WriteDelete,
\* tagged with the number of the call that sent it (history only).
Intent(typ, k, v, id) ==
    [Sequence |-> 0, EventType |-> typ, Key |-> k, Value |-> v, call |-> id]

\* The callers of the store's methods and what one of them is doing: the
\* operation, its key and value, its result, and for a Get what the last
\* write to its key had made of it when the Get was called (snap), unless
\* a write to that key was under way then or began since (clean is FALSE).
Clients == {1, 2}
StoreKeys == {<<"a">>, <<"b">>}
StoreValues == {<<"v">>, <<"w">>}
NoResult == [val |-> <<>>, err |-> "none"]
IdleClient ==
    [pc |-> "idle", op |-> "none", key |-> <<>>, val |-> <<>>,
     res |-> NoResult, clean |-> FALSE, snap |-> NoResult]

\* The goroutines net/http runs the handlers in, and one at rest.
Handlers == {1, 2}
IdleHandler ==
    [pc |-> "idle", method |-> "none", key |-> <<>>, val |-> <<>>,
     stored |-> FALSE, sent |-> 0, status |-> 0]

IdleWriter == [pc |-> "idle", ev |-> Intent(0, <<>>, <<>>, 0)]

\* No goroutine of an earlier call of Run.  Such a goroutine keeps the
\* channels that call made (events, errors), and between its statements
\* the intent it received (ev) and the lastSequence it read (loaded).
NoWorker ==
    [pc |-> "none", events |-> <<>>, errors |-> <<>>,
     ev |-> Intent(0, <<>>, <<>>, 0), loaded |-> 0]
NoPrev ==
    [set |-> FALSE, file0 |-> <<>>, enq |-> <<>>, clean |-> FALSE,
     kvs |-> <<>>]

VARIABLES
    file,           \* the backing file's text
    fileClosed,     \* l.file.Close() was called
    scanPos,        \* the scanner's offset in the file
    e,              \* ReadEvents: var e Event
    lastSequence,   \* l.lastSequence
    rpc,            \* the ReadEvents goroutine: scan, send, return, done
    outError,       \* ReadEvents' outError channel (capacity 1)
    outErrorClosed,
    outEventClosed,
    mpc,            \* main: loop, return, serve
    err,            \* initTransactionLogger: err
    ok,             \* initTransactionLogger: ok
    kvs,            \* the store's map
    events,         \* Run's events channel (capacity 16)
    eventsClosed,
    errors,         \* Run's errors channel (capacity 1)
    wg,             \* l.wg's counter
    wpc,            \* Run's goroutine: none, recv, sendErr, done
    wr,             \* the callers of WritePut / WriteDelete
    cpc,            \* the caller of Wait and Close: idle, inWait, waited,
                    \* wait, closeChan, closeFile, done
    panicked,       \* a goroutine panicked: the process is gone
    opsLeft,        \* calls of WritePut / WriteDelete still to come
    restartsLeft,   \* restarts still to come
    \* History, read by the properties only.
    file0,          \* the file when the process started
    base,           \* lastSequence when Run was called
    enq,            \* the intents sent on events, in order
    taken,          \* the calls whose intents the worker took, in order
    outcome,        \* how the append of each intent taken ended, in order
    adds, dones,    \* calls of wg.Add(1) and of wg.Done()
    closeReq,       \* adds when Close was called
    applied,        \* the events the replay loop applied, in order
    prev,           \* the previous run of the process, after a restart
    \* The store's lock and its callers.
    rwReaders,      \* KVS.RWMutex: the readers holding it
    rwWriter,       \* KVS.RWMutex: none, pending (Lock called, readers
                    \* still inside) or held
    storeCalls,     \* the callers of Get / Put / Delete
    wlog,           \* history: the Puts and Deletes made on the map, in order
    storeLeft,      \* store calls, or requests, still to come
    hd,             \* the request handlers
    old             \* the worker goroutine of an earlier call of Run

\* Everything but the store's map, its lock and its callers, and the request
\* handlers.
logVars == <<file, fileClosed, scanPos, e, lastSequence, rpc, outError,
             outErrorClosed, outEventClosed, mpc, err, ok, events,
             eventsClosed, errors, wg, wpc, wr, cpc, panicked, opsLeft,
             restartsLeft, file0, base, enq, taken, outcome, adds, dones,
             closeReq, applied, prev, old>>

vars == <<logVars, kvs, rwReaders, rwWriter, storeCalls, wlog, storeLeft,
          hd>>

sideVars == <<rwReaders, rwWriter, storeCalls, wlog, storeLeft, hd, old>>
replayVars == <<scanPos, e, rpc, outError, outErrorClosed, outEventClosed>>
mainVars == <<mpc, err, ok>>
armedVars == <<events, eventsClosed, errors, wg, wpc>>
callerVars == <<wr, cpc>>
budgetVars == <<opsLeft, restartsLeft>>
histVars == <<file0, base, enq, taken, outcome, adds, dones, closeReq,
              applied, prev>>

(***************************************************************************)
(* The state after MakeFileTransactionLogger and the call of ReadEvents in *)
(* initTransactionLogger, over a file with text f.                         *)
(***************************************************************************)
Started(f) ==
    /\ file = f
    /\ fileClosed = FALSE
    /\ scanPos = 0
    /\ e = ZeroEvent
    /\ lastSequence = 0
    /\ rpc = "scan"
    /\ outError = <<>>
    /\ outErrorClosed = FALSE
    /\ outEventClosed = FALSE
    /\ mpc = "loop"
    /\ err = Nil
    /\ ok = TRUE
    /\ kvs = EmptyStore
    /\ events = <<>>
    /\ eventsClosed = FALSE
    /\ errors = <<>>
    /\ wg = 0
    /\ wpc = "none"
    /\ wr = [w \in Writers |-> IdleWriter]
    /\ cpc = "idle"
    /\ panicked = FALSE
    /\ file0 = f
    /\ base = 0
    /\ enq = <<>>
    /\ taken = <<>>
    /\ outcome = <<>>
    /\ adds = 0
    /\ dones = 0
    /\ closeReq = 0
    /\ applied = <<>>
    /\ rwReaders = 0
    /\ rwWriter = "none"
    /\ storeCalls = [c \in Clients |-> IdleClient]
    /\ wlog = <<>>
    /\ hd = [h \in Handlers |-> IdleHandler]
    /\ old = NoWorker

(***************************************************************************)
(* ReadEvents' goroutine.                                                  *)
(***************************************************************************)
\* outError <- err; return: the goroutine goes on to its deferred closes.
ReaderFail(error) ==
    /\ outError' = Append(outError, error)
    /\ rpc' = "return"

\* A check that lets a record repeat the sequence number before it.
OutOfSequenceBelow(last, seq) == last > seq

\* The sanity check of ReadEvents: l.lastSequence >= e.Sequence.
OutOfSequence(last, seq) == last >= seq

\* One turn of the for scanner.Scan() loop, up to the send on outEvent (or
\* the return).  The result of Sscanf is not looked at: e keeps whatever
\* the scan assigned, over what the line before left in it.
ReaderScan ==
    /\ UNCHANGED sideVars
    /\ rpc = "scan"
    /\ ~panicked
    /\ UNCHANGED <<file, fileClosed, outErrorClosed, outEventClosed, mainVars,
                   kvs, armedVars, callerVars, panicked, budgetVars, histVars>>
    /\ IF scanPos >= Len(file)
       THEN \* scanner.Scan() is false and scanner.Err() is nil
            /\ rpc' = "return"
            /\ UNCHANGED <<scanPos, e, lastSequence, outError>>
       ELSE LET ln == ScanLine(file, scanPos)
                sc == Sscanf(ln.tok, e).e
                uv == QueryUnescape(sc.Value)
            IN  /\ scanPos' = ln.next
                /\ IF OutOfSequence(lastSequence, sc.Sequence)
                   THEN /\ ReaderFail(ErrSequence)
                        /\ e' = sc
                        /\ UNCHANGED lastSequence
                   ELSE IF ~uv.ok
                   THEN /\ ReaderFail(ErrDecode)
                        /\ e' = sc
                        /\ UNCHANGED lastSequence
                   ELSE /\ e' = [sc EXCEPT !.Value = uv.val]
                        /\ lastSequence' = sc.Sequence
                        /\ rpc' = "send"
                        /\ UNCHANGED outError

\* scanner.Scan() is false because the read failed: scanner.Err() is sent.
ReaderReadFailure ==
    /\ UNCHANGED sideVars
    /\ rpc = "scan"
    /\ ~panicked
    /\ scanPos < Len(file)
    /\ ReaderFail(ErrRead)
    /\ UNCHANGED <<file, fileClosed, scanPos, e, lastSequence, outErrorClosed,
                   outEventClosed, mainVars, kvs, armedVars, callerVars,
                   panicked, budgetVars, histVars>>

\* The goroutine returns: its deferred calls run, close(outError) first and
\* close(outEvent) after it.  The replay loop reads the same from the two
\* channels whether it looks between the two closes or after them, so they
\* are one step.
ReaderReturn ==
    /\ UNCHANGED sideVars
    /\ rpc = "return"
    /\ ~panicked
    /\ outErrorClosed' = TRUE
    /\ outEventClosed' = TRUE
    /\ rpc' = "done"
    /\ UNCHANGED <<file, fileClosed, scanPos, e, lastSequence, outError,
                   mainVars, kvs, armedVars, callerVars, panicked,
                   budgetVars, histVars>>

(***************************************************************************)
(* initTransactionLogger's replay loop and main.                           *)
(***************************************************************************)
\* A loop that ends as soon as the error channel has nothing to deliver.
LoopUntilIdle == ok /\ err = Nil /\ outError # <<>>

\* A loop whose body never runs.
LoopSkipped == FALSE

\* for ok && err == nil
LoopContinues == ok /\ err = Nil

\* case err, ok = <-errors: a buffered error, or the zero value of a
\* closed channel.
MainSelectError ==
    /\ UNCHANGED sideVars
    /\ mpc = "loop"
    /\ ~panicked
    /\ LoopContinues
    /\ \/ /\ outError # <<>>
          /\ err' = Head(outError)
          /\ ok' = TRUE
          /\ outError' = Tail(outError)
       \/ /\ outError = <<>>
          /\ outErrorClosed
          /\ err' = Nil
          /\ ok' = FALSE
          /\ UNCHANGED outError
    /\ UNCHANGED <<file, fileClosed, scanPos, e, lastSequence, rpc,
                   outErrorClosed, outEventClosed, mpc, kvs, armedVars,
                   callerVars, panicked, budgetVars, histVars>>

\* case e, ok = <-events: the event the goroutine is sending (outEvent is
\* unbuffered), or the zero Event of a closed channel; then the switch on
\* e.EventType.  Put and Delete return nil.
MainSelectEvent ==
    /\ UNCHANGED sideVars
    /\ mpc = "loop"
    /\ ~panicked
    /\ LoopContinues
    /\ \/ /\ rpc = "send"
          /\ kvs' = ApplyEvent(kvs, e)
          /\ applied' = Append(applied, e)
          /\ ok' = TRUE
          /\ rpc' = "scan"
       \/ /\ rpc # "send"
          /\ outEventClosed
          /\ kvs' = ApplyEvent(kvs, ZeroEvent)
          /\ ok' = FALSE
          /\ UNCHANGED <<rpc, applied>>
    /\ UNCHANGED <<file, fileClosed, scanPos, e, lastSequence, outError,
                   outErrorClosed, outEventClosed, mpc, err, armedVars,
                   callerVars, panicked, budgetVars, file0, base, enq, taken,
                   outcome, adds, dones, closeReq, prev>>

\* log.Run(), called when the loop ends, whatever err is: the channels are
\* made and the worker goroutine is started.
MainRun ==
    /\ UNCHANGED sideVars
    /\ mpc = "loop"
    /\ ~panicked
    /\ ~LoopContinues
    /\ mpc' = "return"
    /\ events' = <<>>
    /\ errors' = <<>>
    /\ wpc' = "recv"
    /\ base' = lastSequence
    /\ UNCHANGED <<file, fileClosed, replayVars, lastSequence, err, ok, kvs,
                   eventsClosed, wg, callerVars, panicked, budgetVars,
                   file0, enq, taken, outcome, adds, dones, closeReq,
                   applied, prev>>

\* return err, which main drops: it registers the handlers and listens.
MainReturn ==
    /\ UNCHANGED sideVars
    /\ mpc = "return"
    /\ ~panicked
    /\ mpc' = "serve"
    /\ UNCHANGED <<file, fileClosed, replayVars, lastSequence, err, ok, kvs,
                   armedVars, callerVars, panicked, budgetVars, histVars>>

(***************************************************************************)
(* WritePut, WriteDelete and Run's goroutine.                              *)
(***************************************************************************)
\* The handlers are registered once initTransactionLogger has returned.
\* The callers of WritePut, WriteDelete, Wait, Close and Err are taken to
\* call the logger initTransactionLogger made; main's handlers name it by
\* the package variable tLog.
Serving == mpc = "serve" /\ ~panicked

\* l.wg.Add(1), the first statement of WritePut and of WriteDelete.  The
\* callers are interchangeable: a call is made by the first idle one.
WriteAdd(w, typ, k, v) ==
    /\ UNCHANGED sideVars
    /\ Serving
    /\ wr[w].pc = "idle"
    /\ \A u \in Writers : u < w => wr[u].pc # "idle"
    /\ opsLeft > 0
    /\ opsLeft' = opsLeft - 1
    /\ wg' = wg + 1
    /\ adds' = adds + 1
    /\ wr' = [wr EXCEPT ![w] = [pc |-> "added", ev |-> Intent(typ, k, v, adds + 1)]]
    /\ UNCHANGED <<file, fileClosed, replayVars, lastSequence, mainVars, kvs,
                   events, eventsClosed, errors, wpc, cpc, panicked,
                   restartsLeft, file0, base, enq, taken, outcome, dones,
                   closeReq, applied, prev>>

\* WritePut(key, value)
WritePut(w, k, v) == WriteAdd(w, EventPut, k, v)

\* WriteDelete(key)
WriteDelete(w, k) == WriteAdd(w, EventDelete, k, <<>>)

\* l.events <- Event{...}: the send blocks while the channel is full and
\* panics once the channel is closed.
WriteSend(w) ==
    /\ UNCHANGED sideVars
    /\ ~panicked
    /\ wr[w].pc = "added"
    /\ IF eventsClosed
       THEN /\ panicked' = TRUE
            /\ UNCHANGED <<events, enq, wr>>
       ELSE /\ Len(events) < EventsCap
            /\ events' = Append(events, wr[w].ev)
            /\ enq' = Append(enq, wr[w].ev)
            /\ wr' = [wr EXCEPT ![w] = IdleWriter]
            /\ UNCHANGED panicked
    /\ UNCHANGED <<file, fileClosed, replayVars, lastSequence, mainVars, kvs,
                   eventsClosed, errors, wg, wpc, cpc, budgetVars, file0,
                   base, taken, outcome, adds, dones, closeReq, applied,
                   prev>>

\* What an append that ends as out leaves in the file of the record rec.
Written(rec, out) ==
    CASE out = "ok" -> rec
      [] out = "torn" -> Take(rec, Len(rec) - 1)
      [] OTHER -> <<>>

\* A receive that takes the newest intent of the buffer instead.
NewestIntent(q) == Len(q)

\* for e := range events: the index in the channel's buffer of the intent
\* received next, its oldest.
NextIntent(q) == 1

\* A write at the start of the file, over what is there.
FileOverwrite(f, text) == text \o Drop(f, Len(text))

\* A write to l.file, which MakeFileTransactionLogger opens with O_APPEND:
\* the text goes after the end of the file, wherever the reads have got to.
FileAppend(f, text) == f \o text

\* The record the worker writes for the intent ev after l.lastSequence++.
WorkerRecord(last, ev) ==
    FormatRecord(last + 1, ev.EventType, ev.Key, ev.Value)

\* The body of for e := range events, up to the send on errors: the next
\* sequence number is taken, the record is written, and on an error the
\* worker sends it on errors, which blocks while that channel is full.
\* l.wg.Done() follows.  A write to a closed file fails.
WorkerTake(out) ==
    /\ UNCHANGED sideVars
    /\ wpc = "recv"
    /\ ~panicked
    /\ events # <<>>
    /\ fileClosed => out = "none"
    /\ LET i  == NextIntent(events)
           ev == events[i]
       IN  /\ events' = SubSeq(events, 1, i - 1) \o SubSeq(events, i + 1, Len(events))
           /\ lastSequence' = lastSequence + 1
           /\ file' = FileAppend(file,
                              Written(WorkerRecord(lastSequence, ev), out))
           /\ taken' = Append(taken, ev.call)
           /\ outcome' = Append(outcome, out)
    /\ IF out = "ok"
       THEN /\ wg' = wg - 1
            /\ dones' = dones + 1
            /\ UNCHANGED <<errors, wpc>>
       ELSE IF Len(errors) < ErrorsCap
       THEN /\ errors' = Append(errors, ErrWrite)
            /\ wg' = wg - 1
            /\ dones' = dones + 1
            /\ UNCHANGED wpc
       ELSE /\ wpc' = "sendErr"
            /\ UNCHANGED <<errors, wg, dones>>
    /\ UNCHANGED <<fileClosed, replayVars, mainVars, kvs, eventsClosed,
                   callerVars, panicked, budgetVars, file0, base, enq, adds,
                   closeReq, applied, prev>>

\* errors <- err completes once the channel has room; l.wg.Done() follows.
WorkerSendError ==
    /\ UNCHANGED sideVars
    /\ wpc = "sendErr"
    /\ ~panicked
    /\ Len(errors) < ErrorsCap
    /\ errors' = Append(errors, ErrWrite)
    /\ wg' = wg - 1
    /\ dones' = dones + 1
    /\ wpc' = "recv"
    /\ UNCHANGED <<file, fileClosed, replayVars, lastSequence, mainVars, kvs,
                   events, eventsClosed, callerVars, panicked, budgetVars,
                   file0, base, enq, taken, outcome, adds, closeReq, applied,
                   prev>>

\* range events ends: the channel is closed and empty.
WorkerExit ==
    /\ UNCHANGED sideVars
    /\ wpc = "recv"
    /\ ~panicked
    /\ events = <<>>
    /\ eventsClosed
    /\ wpc' = "done"
    /\ UNCHANGED <<file, fileClosed, replayVars, lastSequence, mainVars, kvs,
                   events, eventsClosed, errors, wg, callerVars, panicked,
                   budgetVars, histVars>>

\* A caller receives from the channel Err() returns.
ErrReceive ==
    /\ UNCHANGED sideVars
    /\ Serving
    /\ errors # <<>>
    /\ errors' = Tail(errors)
    /\ UNCHANGED <<file, fileClosed, replayVars, lastSequence, mainVars, kvs,
                   events, eventsClosed, wg, wpc, callerVars, panicked,
                   budgetVars, histVars>>

(***************************************************************************)
(* Wait and Close.                                                         *)
(***************************************************************************)
\* Wait is called.
WaitCall ==
    /\ UNCHANGED sideVars
    /\ Serving
    /\ cpc = "idle"
    /\ cpc' = "inWait"
    /\ UNCHANGED <<file, fileClosed, replayVars, lastSequence, mainVars, kvs,
                   armedVars, wr, panicked, budgetVars, histVars>>

\* A Wait that returns at once.
NoWait == TRUE

\* What l.wg.Wait() waits for: the counter at zero.
WaitGroupZero == wg = 0

\* l.wg.Wait() returns, and Wait with it.
WaitReturn ==
    /\ UNCHANGED sideVars
    /\ cpc = "inWait"
    /\ ~panicked
    /\ WaitGroupZero
    /\ cpc' = "waited"
    /\ UNCHANGED <<file, fileClosed, replayVars, lastSequence, mainVars, kvs,
                   armedVars, wr, panicked, budgetVars, histVars>>

\* Close is called, by the caller that may have called Wait before.
CloseCall ==
    /\ UNCHANGED sideVars
    /\ Serving
    /\ cpc \in {"idle", "waited"}
    /\ cpc' = "wait"
    /\ closeReq' = adds
    /\ UNCHANGED <<file, fileClosed, replayVars, lastSequence, mainVars, kvs,
                   armedVars, wr, panicked, budgetVars, file0, base, enq,
                   taken, outcome, adds, dones, applied, prev>>

\* l.wg.Wait() in Close returns.
CloseWait ==
    /\ UNCHANGED sideVars
    /\ cpc = "wait"
    /\ ~panicked
    /\ WaitGroupZero
    /\ cpc' = "closeChan"
    /\ UNCHANGED <<file, fileClosed, replayVars, lastSequence, mainVars, kvs,
                   armedVars, wr, panicked, budgetVars, histVars>>

\* if l.events != nil { close(l.events) }: Run has made the channel.
CloseEvents ==
    /\ UNCHANGED sideVars
    /\ cpc = "closeChan"
    /\ ~panicked
    /\ eventsClosed' = TRUE
    /\ cpc' = "closeFile"
    /\ UNCHANGED <<file, fileClosed, replayVars, lastSequence, mainVars, kvs,
                   events, errors, wg, wpc, wr, panicked, budgetVars,
                   histVars>>

\* return l.file.Close()
CloseFile ==
    /\ UNCHANGED sideVars
    /\ cpc = "closeFile"
    /\ ~panicked
    /\ fileClosed' = TRUE
    /\ cpc' = "done"
    /\ UNCHANGED <<file, replayVars, lastSequence, mainVars, kvs, armedVars,
                   wr, panicked, budgetVars, histVars>>

(***************************************************************************)
(* The process ends (it is killed, or it panicked) and is started again    *)
(* over the same file: nothing but the file survives.                      *)
(***************************************************************************)
\* Whether every intent sent in this run was appended, none failing.
CleanRun ==
    /\ Len(outcome) = Len(enq)
    /\ \A i \in 1..Len(outcome) : outcome[i] = "ok"
    /\ \A w \in Writers : wr[w].pc = "idle"
    /\ \A h \in Handlers : hd[h].pc = "idle"

\* The new process is in the state Started(file) describes.
Restart ==
    /\ restartsLeft > 0
    /\ restartsLeft' = restartsLeft - 1
    /\ prev' = [set |-> TRUE, file0 |-> file0, enq |-> enq,
                clean |-> CleanRun, kvs |-> kvs]
    /\ file' = file
    /\ fileClosed' = FALSE
    /\ scanPos' = 0
    /\ e' = ZeroEvent
    /\ lastSequence' = 0
    /\ rpc' = "scan"
    /\ outError' = <<>>
    /\ outErrorClosed' = FALSE
    /\ outEventClosed' = FALSE
    /\ mpc' = "loop"
    /\ err' = Nil
    /\ ok' = TRUE
    /\ kvs' = EmptyStore
    /\ events' = <<>>
    /\ eventsClosed' = FALSE
    /\ errors' = <<>>
    /\ wg' = 0
    /\ wpc' = "none"
    /\ wr' = [w \in Writers |-> IdleWriter]
    /\ cpc' = "idle"
    /\ panicked' = FALSE
    /\ file0' = file
    /\ base' = 0
    /\ enq' = <<>>
    /\ taken' = <<>>
    /\ outcome' = <<>>
    /\ adds' = 0
    /\ dones' = 0
    /\ closeReq' = 0
    /\ applied' = <<>>
    /\ rwReaders' = 0
    /\ rwWriter' = "none"
    /\ storeCalls' = [c \in Clients |-> IdleClient]
    /\ wlog' = <<>>
    /\ hd' = [h \in Handlers |-> IdleHandler]
    /\ old' = NoWorker
    /\ UNCHANGED <<opsLeft, storeLeft>>

(***************************************************************************)
(* The store's methods under its lock.  A caller takes the lock, reads or  *)
(* writes the map, and unlocks and returns.                                *)
(***************************************************************************)
ErrorNoSuchKey == "no such key"

\* A read of the map that reports no missing key.
GetZero(m, k) ==
    [val |-> IF k \in DOMAIN m THEN m[k] ELSE <<>>, err |-> Nil]

\* KVS.Get between RLock and RUnlock: value, ok := s.M[key], and what Get
\* returns for it.
StoreGet(m, k) ==
    IF k \in DOMAIN m THEN [val |-> m[k], err |-> Nil]
    ELSE [val |-> <<>>, err |-> ErrorNoSuchKey]

IsWrite(op) == op \in {"Put", "Delete"}

\* What a Get of k returns after the writes of log: the value of the last
\* write to k if that is a Put, and ErrorNoSuchKey otherwise.
AfterWrites(log, k) ==
    LET on == {i \in 1..Len(log) : log[i].key = k}
        last == CHOOSE i \in on : \A j \in on : j <= i
    IN  IF on = {} \/ log[last].op = "Delete"
        THEN [val |-> <<>>, err |-> ErrorNoSuchKey]
        ELSE [val |-> log[last].val, err |-> Nil]

\* A write to k has been called and has not returned.
WriteUnderWay(k) ==
    \E c \in Clients :
        storeCalls[c].pc # "idle" /\ IsWrite(storeCalls[c].op)
            /\ storeCalls[c].key = k

\* Get, Put or Delete is called.
StoreCall(c, op, k, v) ==
    /\ storeCalls[c].pc = "idle"
    /\ \A u \in Clients : u < c => storeCalls[u].pc # "idle"
    /\ storeLeft > 0
    /\ storeLeft' = storeLeft - 1
    /\ storeCalls' =
           [u \in Clients |->
               IF u = c
               THEN [pc |-> "want", op |-> op, key |-> k, val |-> v,
                     res |-> NoResult,
                     clean |-> op = "Get" /\ ~WriteUnderWay(k),
                     snap |-> IF op = "Get" THEN AfterWrites(wlog, k)
                              ELSE NoResult]
               ELSE IF IsWrite(op) /\ storeCalls[u].key = k
               THEN [storeCalls[u] EXCEPT !.clean = FALSE]
               ELSE storeCalls[u]]
    /\ UNCHANGED <<logVars, kvs, rwReaders, rwWriter, wlog, hd>>

\* A lock that lets a reader in whatever a writer does.
RLockAlways(w) == TRUE

\* s.RLock() returns: no writer holds the lock or waits for it.
CanRLock(w) == w = "none"

StoreRLock(c) ==
    /\ storeCalls[c].pc = "want"
    /\ storeCalls[c].op = "Get"
    /\ CanRLock(rwWriter)
    /\ rwReaders' = rwReaders + 1
    /\ storeCalls' = [storeCalls EXCEPT ![c].pc = "in"]
    /\ UNCHANGED <<logVars, kvs, rwWriter, wlog, storeLeft, hd>>

\* s.Lock() is called: the writer is next in line and new readers wait.
StoreLockCall(c) ==
    /\ storeCalls[c].pc = "want"
    /\ IsWrite(storeCalls[c].op)
    /\ rwWriter = "none"
    /\ rwWriter' = "pending"
    /\ storeCalls' = [storeCalls EXCEPT ![c].pc = "locking"]
    /\ UNCHANGED <<logVars, kvs, rwReaders, wlog, storeLeft, hd>>

\* s.Lock() returns: the readers inside have left.
StoreLock(c) ==
    /\ storeCalls[c].pc = "locking"
    /\ rwReaders = 0
    /\ rwWriter' = "held"
    /\ storeCalls' = [storeCalls EXCEPT ![c].pc = "in"]
    /\ UNCHANGED <<logVars, kvs, rwReaders, wlog, storeLeft, hd>>

\* The map is read or written, under the lock.
StoreAccess(c) ==
    LET s == storeCalls[c]
    IN  /\ s.pc = "in"
        /\ CASE s.op = "Get" ->
                  /\ storeCalls' = [storeCalls EXCEPT ![c].pc = "out",
                                        ![c].res = StoreGet(kvs, s.key)]
                  /\ UNCHANGED <<kvs, wlog>>
             [] s.op = "Put" ->
                  /\ kvs' = StorePut(kvs, s.key, s.val)
                  /\ wlog' = Append(wlog, [op |-> "Put", key |-> s.key,
                                           val |-> s.val])
                  /\ storeCalls' = [storeCalls EXCEPT ![c].pc = "out",
                                        ![c].res = [val |-> <<>>, err |-> Nil]]
             [] s.op = "Delete" ->
                  /\ kvs' = StoreDelete(kvs, s.key)
                  /\ wlog' = Append(wlog, [op |-> "Delete", key |-> s.key,
                                           val |-> <<>>])
                  /\ storeCalls' = [storeCalls EXCEPT ![c].pc = "out",
                                        ![c].res = [val |-> <<>>, err |-> Nil]]
        /\ UNCHANGED <<logVars, rwReaders, rwWriter, storeLeft, hd>>

\* s.RUnlock() or s.Unlock(), and the return.
StoreUnlock(c) ==
    /\ storeCalls[c].pc = "out"
    /\ IF storeCalls[c].op = "Get"
       THEN rwReaders' = rwReaders - 1 /\ UNCHANGED rwWriter
       ELSE rwWriter' = "none" /\ UNCHANGED rwReaders
    /\ storeCalls' = [storeCalls EXCEPT ![c] = IdleClient]
    /\ UNCHANGED <<logVars, kvs, wlog, storeLeft, hd>>

(***************************************************************************)
(* Run called again on the armed logger.  It makes new channels and starts *)
(* another goroutine; the goroutine of the call before keeps ranging over  *)
(* the channel that call made, with the intents still in it.  The two      *)
(* goroutines share l.lastSequence and l.file without synchronisation: the *)
(* earlier one is taken statement by statement, so that its read and its   *)
(* write of l.lastSequence may fall either side of the other's append.     *)
(***************************************************************************)
RunAgain ==
    /\ Serving
    /\ wpc = "recv"
    /\ old.pc = "none"
    /\ old' = [NoWorker EXCEPT !.pc = "recv", !.events = events,
                               !.errors = errors]
    /\ events' = <<>>
    /\ errors' = <<>>
    /\ UNCHANGED <<file, fileClosed, replayVars, lastSequence, mainVars, kvs,
                   eventsClosed, wg, wpc, callerVars, panicked, budgetVars,
                   histVars, rwReaders, rwWriter, storeCalls, wlog,
                   storeLeft, hd>>

\* The earlier goroutine receives an intent and reads l.lastSequence.
OldWorkerRecv ==
    /\ old.pc = "recv"
    /\ ~panicked
    /\ old.events # <<>>
    /\ old' = [old EXCEPT !.pc = "store", !.events = Tail(old.events),
                          !.ev = Head(old.events), !.loaded = lastSequence]
    /\ UNCHANGED <<file, fileClosed, replayVars, lastSequence, mainVars, kvs,
                   armedVars, callerVars, panicked, budgetVars, histVars,
                   rwReaders, rwWriter, storeCalls, wlog, storeLeft, hd>>

\* It writes back the number it read, plus one: l.lastSequence++.
OldWorkerStore ==
    /\ old.pc = "store"
    /\ ~panicked
    /\ lastSequence' = old.loaded + 1
    /\ old' = [old EXCEPT !.pc = "write"]
    /\ UNCHANGED <<file, fileClosed, replayVars, mainVars, kvs, armedVars,
                   callerVars, panicked, budgetVars, histVars, rwReaders,
                   rwWriter, storeCalls, wlog, storeLeft, hd>>

\* Its Fprintf, with l.lastSequence as it is now; an error goes to the
\* errors channel of its own call of Run, which nothing receives from, and
\* l.wg.Done() follows once the error is sent.
OldWorkerWrite(out) ==
    /\ old.pc = "write"
    /\ ~panicked
    /\ fileClosed => out = "none"
    /\ file' = FileAppend(file,
                          Written(FormatRecord(lastSequence, old.ev.EventType,
                                               old.ev.Key, old.ev.Value),
                                  out))
    /\ IF out = "ok"
       THEN /\ wg' = wg - 1
            /\ old' = [old EXCEPT !.pc = "recv"]
       ELSE IF Len(old.errors) < ErrorsCap
       THEN /\ wg' = wg - 1
            /\ old' = [old EXCEPT !.pc = "recv",
                                  !.errors = Append(old.errors, ErrWrite)]
       ELSE /\ old' = [old EXCEPT !.pc = "sendErr"]
            /\ UNCHANGED wg
    /\ UNCHANGED <<fileClosed, replayVars, lastSequence, mainVars, kvs,
                   events, eventsClosed, errors, wpc, callerVars, panicked,
                   budgetVars, histVars, rwReaders, rwWriter, storeCalls,
                   wlog, storeLeft, hd>>

(***************************************************************************)
(* The request handlers of main.                                           *)
(***************************************************************************)
\* var tLog logger.TransactionLogger: the package variable the handlers
\* call.  Nothing assigns it; initTransactionLogger keeps the logger it
\* makes in a local variable.
tLog == Nil

\* The kind of intent a handler's method records.
KindOf(method) == IF method = "PUT" THEN EventPut ELSE EventDelete

\* net/http calls the handler of a request.  KeyValuePutHandler reads the
\* body first; the other two go to the store at once.
HandlerCall(h, method, k, v) ==
    /\ Serving
    /\ hd[h].pc = "idle"
    /\ \A u \in Handlers : u < h => hd[u].pc # "idle"
    /\ storeLeft > 0
    /\ storeLeft' = storeLeft - 1
    /\ hd' = [hd EXCEPT ![h] =
                 [IdleHandler EXCEPT !.pc = IF method = "PUT" THEN "body"
                                           ELSE "store",
                                     !.method = method, !.key = k,
                                     !.val = v]]
    /\ UNCHANGED <<logVars, kvs, rwReaders, rwWriter, storeCalls, wlog>>

\* val, err := io.ReadAll(r.Body); on an error the handler answers 500 and
\* returns.
HandlerReadBody(h, readOk) ==
    /\ hd[h].pc = "body"
    /\ ~panicked
    /\ hd' = [hd EXCEPT ![h] =
                 IF readOk THEN [@ EXCEPT !.pc = "store"]
                 ELSE [@ EXCEPT !.pc = "done", !.status = 500]]
    /\ UNCHANGED <<logVars, kvs, rwReaders, rwWriter, storeCalls, wlog,
                   storeLeft>>

\* kvs.Put, kvs.Get or kvs.Delete, made under the store's lock.  Put and
\* Delete return nil and the handler goes on to the logger; Get's result
\* is answered, 404 for ErrorNoSuchKey.
HandlerStore(h) ==
    /\ hd[h].pc = "store"
    /\ ~panicked
    /\ rwWriter = "none"
    /\ rwReaders = 0
    /\ LET r == hd[h]
       IN  CASE r.method = "PUT" ->
                    /\ kvs' = StorePut(kvs, r.key, r.val)
                    /\ wlog' = Append(wlog, [op |-> "Put", key |-> r.key,
                                             val |-> r.val])
                    /\ hd' = [hd EXCEPT ![h].pc = "log", ![h].stored = TRUE]
             [] r.method = "DELETE" ->
                    /\ kvs' = StoreDelete(kvs, r.key)
                    /\ wlog' = Append(wlog, [op |-> "Delete", key |-> r.key,
                                             val |-> <<>>])
                    /\ hd' = [hd EXCEPT ![h].pc = "log", ![h].stored = TRUE]
             [] OTHER ->
                    /\ hd' = [hd EXCEPT
                                 ![h].pc = "done",
                                 ![h].status =
                                     IF StoreGet(kvs, r.key).err = ErrorNoSuchKey
                                     THEN 404 ELSE 200]
                    /\ UNCHANGED <<kvs, wlog>>
    /\ UNCHANGED <<logVars, rwReaders, rwWriter, storeCalls, storeLeft>>

\* The package variable the handlers of package server call.  Package
\* server's server.go does not declare it; it is taken to hold the logger
\* Run armed.
Logger == "armed"

\* lg.WritePut(key, string(val)) or lg.WriteDelete(key) on the logger the
\* package variable lg holds, and the w.WriteHeader that follows when the
\* call returns.  A method call on a nil interface value panics; net/http
\* recovers the panic of a handler and drops the connection, so the
\* request gets no answer.
HandlerLogWith(h, lg) ==
    /\ hd[h].pc = "log"
    /\ ~panicked
    /\ IF lg = Nil
       THEN /\ hd' = [hd EXCEPT ![h].pc = "panic"]
            /\ UNCHANGED <<events, enq, wg, adds>>
       ELSE /\ ~eventsClosed
            /\ Len(events) < EventsCap
            /\ LET ev == Intent(KindOf(hd[h].method), hd[h].key,
                                IF hd[h].method = "PUT" THEN hd[h].val
                                ELSE <<>>, adds + 1)
               IN  /\ events' = Append(events, ev)
                   /\ enq' = Append(enq, ev)
            /\ wg' = wg + 1
            /\ adds' = adds + 1
            /\ hd' = [hd EXCEPT
                         ![h].pc = "done", ![h].sent = 1,
                         ![h].status = IF hd[h].method = "PUT" THEN 201
                                       ELSE 200]
    /\ UNCHANGED <<file, fileClosed, replayVars, lastSequence, mainVars,
                   eventsClosed, errors, wpc, callerVars, panicked,
                   budgetVars, file0, base, taken, outcome, dones, closeReq,
                   applied, prev, old, kvs, rwReaders, rwWriter, storeCalls,
                   wlog, storeLeft>>

\* tLog.WritePut / tLog.WriteDelete in main's handlers.
HandlerLog(h) == HandlerLogWith(h, tLog)

\* The handler's goroutine is done with the request.
HandlerReturn(h) ==
    /\ hd[h].pc \in {"done", "panic"}
    /\ hd' = [hd EXCEPT ![h] = IdleHandler]
    /\ UNCHANGED <<logVars, kvs, rwReaders, rwWriter, storeCalls, wlog,
                   storeLeft>>

(***************************************************************************)
(* Specifications.                                                         *)
(***************************************************************************)
\* A well-formed record line, as Run writes it.
Line(seq, typ, key, value) == FormatRecord(seq, typ, key, value)

\* The logs the full specification starts from: an empty file and a file
\* holding one Put.
StartLogs == {<<>>, Line(1, EventPut, <<"a">>, <<"v">>)}

Init ==
    /\ \E f \in StartLogs : Started(f)
    /\ opsLeft = MaxOps
    /\ restartsLeft = 0
    /\ prev = NoPrev
    /\ storeLeft = 0

Replaying ==
    \/ ReaderScan
    \/ ReaderReadFailure
    \/ ReaderReturn
    \/ MainSelectError
    \/ MainSelectEvent
    \/ MainRun
    \/ MainReturn

Worker ==
    \/ \E out \in WriteOutcomes : WorkerTake(out)
    \/ WorkerSendError
    \/ WorkerExit

Callers ==
    \/ \E w \in Writers : WriteSend(w)
    \/ ErrReceive
    \/ WaitCall
    \/ WaitReturn
    \/ CloseCall
    \/ CloseWait
    \/ CloseEvents
    \/ CloseFile

Next ==
    \/ Replaying
    \/ \E w \in Writers, k \in Keys, v \in Values : WritePut(w, k, v)
    \/ \E w \in Writers, k \in Keys : WriteDelete(w, k)
    \/ Worker
    \/ Callers

Spec == Init /\ [][Next]_vars

(***************************************************************************)
(* Replay alone, from every log of up to MaxLogLen lines: records as Run   *)
(* writes them, in any order of their sequence numbers, and malformed      *)
(* lines.                                                                  *)
(***************************************************************************)
LogKeys == {<<"x">>, <<"a">>}
LogValues == {<<>>, <<"4", "2">>}

Records ==
    [seq : 1..MaxSeq, typ : {EventPut}, key : LogKeys, value : LogValues]
        \cup [seq : 1..MaxSeq, typ : {EventDelete}, key : LogKeys, value : {<<>>}]

\* The line of a record: what Run writes, without the line end.
RecordText(r) ==
    LET rec == FormatRecord(r.seq, r.typ, r.key, r.value)
    IN  Take(rec, Len(rec) - 1)

RecordLines == {RecordText(r) : r \in Records}

\* Lines that are no records: a sequence number that is no number, a kind
\* that is no number, and lines of three and of two fields.
MalformedLines ==
    {<<"z", "\t", "2", "\t", "a", "\t", "v">>,
     <<"2", "\t", "z", "\t", "a", "\t", "v">>,
     <<"2", "\t", "2", "\t", "a">>,
     <<"2", "\t", "2">>}

LogLines == RecordLines \cup MalformedLines

FileOf(lines) == Flatten([i \in 1..Len(lines) |-> lines[i] \o <<"\n">>])

ReplayLogs == UNION {[1..m -> LogLines] : m \in 0..MaxLogLen}

InitReplay ==
    /\ \E l \in ReplayLogs : Started(FileOf(l))
    /\ opsLeft = 0
    /\ restartsLeft = 0
    /\ prev = NoPrev
    /\ storeLeft = 0

SpecReplay == InitReplay /\ [][Replaying]_vars

(***************************************************************************)
(* One caller at a time, over an empty file, with values of every kind;    *)
(* the process may be restarted to replay what it wrote.                   *)
(***************************************************************************)
RichValues ==
    {<<>>, <<"v">>, <<"x", " ", "y">>, <<"x", "\t", "y">>, <<"x", "\n", "y">>,
     <<"%">>, <<"+">>}

InitRestart ==
    /\ Started(<<>>)
    /\ opsLeft = MaxOps
    /\ restartsLeft = MaxRestarts
    /\ prev = NoPrev
    /\ storeLeft = 0

NextRestart ==
    \/ Replaying
    \/ \E k \in Keys, v \in RichValues : WritePut(1, k, v)
    \/ \E k \in Keys : WriteDelete(1, k)
    \/ Worker
    \/ Callers
    \/ Restart

SpecRestart == InitRestart /\ [][NextRestart]_vars

(***************************************************************************)
(* The pipeline alone, with enough calls to fill the errors channel, block  *)
(* the worker on it and leave one intent behind.                           *)
(* The scheduler runs the worker goroutine whenever it can run; nothing in *)
(* the program receives from Err(), so no fairness is assumed for that.    *)
(***************************************************************************)
InitLive ==
    /\ \E f \in StartLogs : Started(f)
    /\ opsLeft = ErrorsCap + 2
    /\ restartsLeft = 0
    /\ prev = NoPrev
    /\ storeLeft = 0

NextLive ==
    \/ Replaying
    \/ \E w \in Writers, k \in Keys, v \in Values : WritePut(w, k, v)
    \/ \E w \in Writers : WriteSend(w)
    \/ \E out \in {"ok", "none"} : WorkerTake(out)
    \/ WorkerSendError
    \/ ErrReceive

LiveSpec ==
    /\ InitLive
    /\ [][NextLive]_vars
    /\ WF_vars(\E out \in {"ok", "none"} : WorkerTake(out))
    /\ WF_vars(WorkerSendError)

(***************************************************************************)
(* The store alone, as its tests use it, with concurrent callers.          *)
(***************************************************************************)
InitStore ==
    /\ Started(<<>>)
    /\ opsLeft = 0
    /\ restartsLeft = 0
    /\ prev = NoPrev
    /\ storeLeft = MaxStoreOps

NextStore ==
    \/ \E c \in Clients, k \in StoreKeys : StoreCall(c, "Get", k, <<>>)
    \/ \E c \in Clients, k \in StoreKeys, v \in StoreValues :
           StoreCall(c, "Put", k, v)
    \/ \E c \in Clients, k \in StoreKeys : StoreCall(c, "Delete", k, <<>>)
    \/ \E c \in Clients : StoreRLock(c)
    \/ \E c \in Clients : StoreLockCall(c)
    \/ \E c \in Clients : StoreLock(c)
    \/ \E c \in Clients : StoreAccess(c)
    \/ \E c \in Clients : StoreUnlock(c)

SpecStore == InitStore /\ [][NextStore]_vars

(***************************************************************************)
(* The events channel filled: more calls than the channel holds, the       *)
(* first, third, ... a WritePut and the others a WriteDelete, and a worker *)
(* whose appends succeed.  The calls come one after the other until the    *)
(* channel is full, and from two callers at once then.                     *)
(***************************************************************************)
\* Whether the caller w makes a call now.
Arrives(w) == w = 1 \/ Len(events) = EventsCap

InitQueue ==
    /\ \E f \in StartLogs : Started(f)
    /\ opsLeft = EventsCap + 2
    /\ restartsLeft = 0
    /\ prev = NoPrev
    /\ storeLeft = 0

NextQueue ==
    \/ Replaying
    \/ \E w \in Writers, k \in Keys, v \in Values :
           Arrives(w) /\ adds % 2 = 0 /\ WritePut(w, k, v)
    \/ \E w \in Writers, k \in Keys :
           Arrives(w) /\ adds % 2 = 1 /\ WriteDelete(w, k)
    \/ \E w \in Writers : WriteSend(w)
    \/ WorkerTake("ok")

SpecQueue == InitQueue /\ [][NextQueue]_vars

(***************************************************************************)
(* main: the replay of a start log, then requests served by the handlers.  *)
(***************************************************************************)
InitServe ==
    /\ \E f \in StartLogs : Started(f)
    /\ opsLeft = 0
    /\ restartsLeft = 0
    /\ prev = NoPrev
    /\ storeLeft = MaxStoreOps

NextServe ==
    \/ Replaying
    \/ \E h \in Handlers, k \in StoreKeys, v \in StoreValues :
           HandlerCall(h, "PUT", k, v)
    \/ \E h \in Handlers, k \in StoreKeys : HandlerCall(h, "GET", k, <<>>)
    \/ \E h \in Handlers, k \in StoreKeys : HandlerCall(h, "DELETE", k, <<>>)
    \/ \E h \in Handlers, readOk \in BOOLEAN : HandlerReadBody(h, readOk)
    \/ \E h \in Handlers : HandlerStore(h)
    \/ \E h \in Handlers : HandlerLog(h)
    \/ \E h \in Handlers : HandlerReturn(h)

SpecServe == InitServe /\ [][NextServe]_vars

(***************************************************************************)
(* The full pipeline without Wait and Close, where Run may be called a     *)
(* second time.                                                            *)
(***************************************************************************)
NextRerun ==
    \/ Replaying
    \/ \E w \in Writers, k \in Keys, v \in Values : WritePut(w, k, v)
    \/ \E w \in Writers, k \in Keys : WriteDelete(w, k)
    \/ \E w \in Writers : WriteSend(w)
    \/ \E out \in WriteOutcomes : WorkerTake(out)
    \/ WorkerSendError
    \/ ErrReceive
    \/ RunAgain
    \/ OldWorkerRecv
    \/ OldWorkerStore
    \/ \E out \in WriteOutcomes : OldWorkerWrite(out)

SpecRerun == Init /\ [][NextRerun]_vars

(***************************************************************************)
(* Package server's handlers over the armed logger, with a worker whose    *)
(* appends succeed; the process may be restarted to replay what it wrote.  *)
(***************************************************************************)
InitServer ==
    /\ Started(<<>>)
    /\ opsLeft = 0
    /\ restartsLeft = MaxRestarts
    /\ prev = NoPrev
    /\ storeLeft = MaxStoreOps

NextServer ==
    \/ Replaying
    \/ \E h \in Handlers, k \in StoreKeys, v \in StoreValues :
           HandlerCall(h, "PUT", k, v)
    \/ \E h \in Handlers, k \in StoreKeys : HandlerCall(h, "DELETE", k, <<>>)
    \/ \E h \in Handlers : HandlerReadBody(h, TRUE)
    \/ \E h \in Handlers : HandlerStore(h)
    \/ \E h \in Handlers : HandlerLogWith(h, Logger)
    \/ \E h \in Handlers : HandlerReturn(h)
    \/ WorkerTake("ok")
    \/ Restart

SpecServer == InitServer /\ [][NextServer]_vars

(***************************************************************************)
(* The pipeline with Wait and Close, with enough calls to fill the errors  *)
(* channel and block the worker on it.  The scheduler runs every goroutine *)
(* that can run: the worker, the callers at their send, and the caller of  *)
(* Wait and Close.  Nothing in the program receives from Err(), so no      *)
(* fairness is assumed for that.                                           *)
(***************************************************************************)
NextShutdown ==
    \/ Replaying
    \/ \E w \in Writers, k \in Keys, v \in Values : WritePut(w, k, v)
    \/ \E w \in Writers : WriteSend(w)
    \/ \E out \in {"ok", "none"} : WorkerTake(out)
    \/ WorkerSendError
    \/ WorkerExit
    \/ ErrReceive
    \/ WaitCall
    \/ WaitReturn
    \/ CloseCall
    \/ CloseWait
    \/ CloseEvents
    \/ CloseFile

ShutdownSpec ==
    /\ InitLive
    /\ [][NextShutdown]_vars
    /\ WF_vars(\E out \in {"ok", "none"} : WorkerTake(out))
    /\ WF_vars(WorkerSendError)
    /\ WF_vars(WorkerExit)
    /\ \A w \in Writers : WF_vars(WriteSend(w))
    /\ WF_vars(WaitReturn)
    /\ WF_vars(CloseWait)
    /\ WF_vars(CloseEvents)
    /\ WF_vars(CloseFile)

(***************************************************************************)
(* Replay under fair scheduling, from every log of up to MaxLogLen lines   *)
(* out of a few: two records, a record whose value does not decode, and a  *)
(* line that is no record.  A log that holds a line twice is out of        *)
(* sequence.  The scheduler runs ReadEvents' goroutine and main whenever   *)
(* they can run; a read of the file may fail, and need not.                *)
(***************************************************************************)
FairLines ==
    {RecordText([seq |-> 1, typ |-> EventPut, key |-> <<"a">>,
                 value |-> <<"4", "2">>]),
     RecordText([seq |-> 2, typ |-> EventDelete, key |-> <<"a">>,
                 value |-> <<>>]),
     RecordText([seq |-> 3, typ |-> EventPut, key |-> <<"a">>,
                 value |-> <<"%">>]),
     <<"2", "\t", "2", "\t", "a">>}

FairLogs == UNION {[1..m -> FairLines] : m \in 0..MaxLogLen}

\* Weak fairness of ReaderScan, with its enabling condition written out:
\* a turn of the scan loop can be taken exactly when the goroutine is at
\* the scan, and it always moves the goroutine on.
ReaderScanFair ==
    \/ []<>~(rpc = "scan" /\ ~panicked)
    \/ []<><<ReaderScan>>_vars

InitFairReplay ==
    /\ \E l \in FairLogs : Started(FileOf(l))
    /\ opsLeft = 0
    /\ restartsLeft = 0
    /\ prev = NoPrev
    /\ storeLeft = 0

FairReplaySpec ==
    /\ InitFairReplay
    /\ [][Replaying]_vars
    /\ ReaderScanFair
    /\ WF_vars(ReaderReturn)
    /\ WF_vars(MainSelectError \/ MainSelectEvent)
    /\ WF_vars(MainRun)
    /\ WF_vars(MainReturn)

(***************************************************************************)
(* Vocabulary of the properties.                                           *)
(***************************************************************************)
Range(s) == {s[i] : i \in 1..Len(s)}

\* The lines of a text, as the scanner cuts them.
RECURSIVE LinesFrom(_, _)
LinesFrom(text, pos) ==
    IF pos >= Len(text) THEN <<>>
    ELSE LET ln == ScanLine(text, pos)
         IN  <<ln.tok>> \o LinesFrom(text, ln.next)

LinesOf(text) == LinesFrom(text, 0)

\* The record a line of RecordLines spells.
RecordOf(line) == CHOOSE r \in Records : RecordText(r) = line

AllRecords(lines) == \A i \in 1..Len(lines) : lines[i] \in RecordLines

\* Line i is a record whose sequence number is not above that of the
\* record before it.
OutOfOrderAt(lines, i) ==
    i > 1 /\ RecordOf(lines[i]).seq <= RecordOf(lines[i - 1]).seq

Increasing(lines) == \A i \in 1..Len(lines) : ~OutOfOrderAt(lines, i)

\* The first index of a sequence at which P holds.
First(n, P(_)) == CHOOSE i \in 1..n : P(i) /\ \A j \in 1..(i - 1) : ~P(j)

\* The store after the operations ops, each with typ, key and value, are
\* applied to m in order: Put sets or overwrites, Delete removes.
RECURSIVE StoreAfter(_, _)
StoreAfter(m, ops) ==
    IF ops = <<>> THEN m
    ELSE LET o == Head(ops)
         IN  StoreAfter(IF o.typ = EventPut THEN StorePut(m, o.key, o.value)
                        ELSE StoreDelete(m, o.key),
                        Tail(ops))

\* The operations of a sequence of intents.
OpsOf(intents) ==
    [i \in 1..Len(intents) |->
        [typ |-> intents[i].EventType, key |-> intents[i].Key,
         value |-> intents[i].Value]]

\* The replay goroutine has sent an error; a read of the file failed.
ErrorSent == outError # <<>> \/ err # Nil
ReadFailed == err = ErrRead \/ ErrRead \in Range(outError)

\* initTransactionLogger is past its replay loop.
ReplayEnded == mpc # "loop"

\* The calls whose intent the worker has handled: the append was made and,
\* if it failed, the error was sent on errors.
HandledCalls == {taken[i] : i \in 1..dones}

\* The first field of a line, read as a number.
SeqField(line) == ScanUintVerb(line, 64).val

\* The lines appended to the file in this run of the process.
AppendedLines == LinesOf(Drop(file, Len(file0)))

\* The sequence number of the last record of a log (0 for an empty log).
LastSeqOf(text) ==
    LET lines == LinesOf(text)
    IN  IF lines = <<>> THEN 0 ELSE SeqField(lines[Len(lines)])

(***************************************************************************)
(* C1.  Round trip: when a run that started on an empty file has appended  *)
(* all of its Put and Delete events without a failure and the file is then *)
(* replayed from the start, the replay succeeds and the store equals the   *)
(* one obtained by applying the same operations directly, in the same      *)
(* order.                                                                  *)
(***************************************************************************)
C1_RoundTrip ==
    (prev.set /\ prev.file0 = <<>> /\ prev.clean /\ ReplayEnded /\ ~ReadFailed)
        => /\ err = Nil
           /\ kvs = StoreAfter(EmptyStore, OpsOf(prev.enq))

(***************************************************************************)
(* C2.  Corruption detection: when the log holds a record whose sequence   *)
(* number is not above that of the record before it, recovery ends with an *)
(* error and neither that record nor a later one is applied.               *)
(***************************************************************************)
C2_CorruptionDetected ==
    LET lines == LinesOf(file0)
        Bad(i) == OutOfOrderAt(lines, i)
    IN  (AllRecords(lines) /\ ~Increasing(lines))
            => /\ Len(applied) < First(Len(lines), Bad)
               /\ (ReplayEnded /\ ~ReadFailed) => err # Nil

(***************************************************************************)
(* C3.  Replay result: after a replay that completes without an error,     *)
(* the store is the result of applying every record of the log in order,   *)
(* each Put with its own value.                                            *)
(***************************************************************************)
C3_ReplayResult ==
    LET lines == LinesOf(file0)
    IN  (AllRecords(lines) /\ Increasing(lines) /\ ReplayEnded /\ ~ErrorSent)
            => kvs = StoreAfter(EmptyStore,
                                [i \in 1..Len(lines) |-> RecordOf(lines[i])])

(***************************************************************************)
(* C4.  Append order: the worker takes the intents in the order in which   *)
(* they were sent on the events channel, none twice and none skipped, and  *)
(* the file holds, after what it held at the start, what the append of     *)
(* each intent taken left of its record, in that order; the intents not    *)
(* yet taken are the rest of those sent.                                   *)
(***************************************************************************)
C4_AppendOrder ==
    /\ Len(taken) <= Len(enq)
    /\ Len(outcome) = Len(taken)
    /\ taken = [i \in 1..Len(taken) |-> enq[i].call]
    /\ events = SubSeq(enq, Len(taken) + 1, Len(enq))
    /\ file = file0 \o Flatten([i \in 1..Len(taken) |->
                  Written(FormatRecord(base + i, enq[i].EventType,
                                       enq[i].Key, enq[i].Value),
                          outcome[i])])

\* C4: a Put and a Delete whose intents were sent in the other order than
\* the two calls began, both appended.
C4_Witness ==
    /\ Len(taken) = 2
    /\ enq[1].call = 2
    /\ enq[1].EventType # enq[2].EventType
    /\ outcome = <<"ok", "ok">>

(***************************************************************************)
(* C5.  Sequence numbers: after a replay without an error, the records     *)
(* the worker appends carry the numbers N+1, N+2, ... where N is the        *)
(* number of the last record replayed (0 for an empty log), without a gap.  *)
(***************************************************************************)
C5_GapFree ==
    (ReplayEnded /\ ~ErrorSent)
        => \A i \in 1..Len(AppendedLines) :
               SeqField(AppendedLines[i]) = LastSeqOf(file0) + i

(***************************************************************************)
(* C6.  Drain: when Close releases the file, every call of WritePut or     *)
(* WriteDelete that began before Close was called has had its intent       *)
(* handled by the worker; when Wait returns, every intent sent has been    *)
(* handled.                                                                *)
(***************************************************************************)
C6_Drain ==
    [][/\ (~fileClosed /\ fileClosed') => (1..closeReq) \subseteq HandledCalls
       /\ (cpc = "inWait" /\ cpc' = "waited")
              => \A i \in 1..Len(enq) : enq[i].call \in HandledCalls]_vars

\* C6: Close has released the file after two calls that began before it,
\* one of whose appends failed.
C6_Witness ==
    /\ fileClosed
    /\ closeReq = 2
    /\ "none" \in Range(outcome)

(***************************************************************************)
(* C7.  A failed append is not fatal to the pipeline: every intent sent    *)
(* on the events channel is taken by the worker in the end, whatever       *)
(* became of the appends before it.                                        *)
(***************************************************************************)
C7_PipelineContinues ==
    \A i \in 1..(ErrorsCap + 2) : (Len(enq) >= i) ~> (Len(taken) >= i)

(***************************************************************************)
(* C8.  Malformed records: when a line of the log is no record, the        *)
(* replay goroutine sends an error once it has read that line, recovery    *)
(* ends with an error, and neither that line nor a later one is delivered  *)
(* to the replay loop.                                                     *)
(***************************************************************************)
C8_MalformedRejected ==
    LET lines == LinesOf(file0)
        Bad(i) == lines[i] \in MalformedLines
        m      == First(Len(lines), Bad)
    IN  (\E i \in 1..Len(lines) : Bad(i))
            => /\ Len(applied) < m
               /\ Len(LinesOf(Take(file0, scanPos))) >= m => ErrorSent
               /\ (ReplayEnded /\ ~ReadFailed) => err # Nil

(***************************************************************************)
(* C9.  Recovery errors abort startup: when the replay ends with an error, *)
(* the worker is not started and the process does not serve.               *)
(***************************************************************************)
C9_NoServiceAfterError ==
    err # Nil => (wpc = "none" /\ mpc # "serve")

(***************************************************************************)
(* C10.  Replay and writing do not overlap: the worker is started only     *)
(* once the replay goroutine has made its last access to lastSequence, and *)
(* nothing is sent to the worker or appended before that.                  *)
(***************************************************************************)
C10_NoOverlap ==
    /\ wpc # "none" => rpc \in {"return", "done"}
    /\ rpc \in {"scan", "send"}
           => (file = file0 /\ enq = <<>> /\ taken = <<>> /\ adds = 0)

\* C10: a record was replayed, the worker was started after the replay
\* goroutine had finished, and it has appended an intent.
C10_Witness ==
    /\ Len(applied) = 1
    /\ rpc = "done"
    /\ wpc = "recv"
    /\ Len(taken) = 1
    /\ lastSequence = 2

\* A caller that holds the lock.
Inside(c) == storeCalls[c].pc \in {"in", "out"}

\* The step is c's read or write of the map.
Accesses(c) == storeCalls[c].pc = "in" /\ storeCalls'[c].pc = "out"

(***************************************************************************)
(* C11.  Last write wins: after any Puts and Deletes on an empty store, a  *)
(* Get of a key returns the value of the last Put on it when no Delete on  *)
(* it followed, and ErrorNoSuchKey when it was never put or was deleted    *)
(* last; writes to other keys do not count.                                *)
(***************************************************************************)
C11_LastWriteWins ==
    /\ \A k \in StoreKeys : StoreGet(kvs, k) = AfterWrites(wlog, k)
    /\ \A c \in Clients :
           (storeCalls[c].pc = "out" /\ storeCalls[c].op = "Get")
               => storeCalls[c].res = AfterWrites(wlog, storeCalls[c].key)

\* C11: a Get of a key that was put and then deleted has found no such key.
C11_Witness ==
    /\ Len(wlog) = 2
    /\ wlog[1].op = "Put"
    /\ wlog[2] = [op |-> "Delete", key |-> wlog[1].key, val |-> <<>>]
    /\ \E c \in Clients :
           /\ storeCalls[c].pc = "out"
           /\ storeCalls[c].op = "Get"
           /\ storeCalls[c].key = wlog[1].key
           /\ storeCalls[c].res.err = ErrorNoSuchKey

(***************************************************************************)
(* C12.  Store concurrency: a Get called when every write to its key had   *)
(* returned, with no write to that key called before it reads, returns     *)
(* what the last of those writes made of the key; while a writer holds the *)
(* lock no other caller is inside; and a Get is let in while other Gets    *)
(* are inside, unless a writer holds the lock or waits for it.             *)
(***************************************************************************)
C12_StoreConcurrency ==
    /\ \A c \in Clients :
           (storeCalls[c].pc = "out" /\ storeCalls[c].op = "Get"
                /\ storeCalls[c].clean)
               => storeCalls[c].res = storeCalls[c].snap
    /\ \A c, d \in Clients :
           (c # d /\ Inside(c) /\ IsWrite(storeCalls[c].op)) => ~Inside(d)
    /\ \A c \in Clients :
           (storeCalls[c].pc = "want" /\ storeCalls[c].op = "Get"
                /\ rwReaders >= 1 /\ rwWriter = "none")
               => ENABLED StoreRLock(c)

\* C12: two Gets hold the read lock at once, and one of them, called after
\* a Put of its key had returned, has read that Put's value.
C12_Witness ==
    /\ rwReaders = 2
    /\ \E c \in Clients :
           /\ storeCalls[c].pc = "out"
           /\ storeCalls[c].clean
           /\ storeCalls[c].res.err = Nil
           /\ storeCalls[c].res.val = wlog[Len(wlog)].val

(***************************************************************************)
(* C16.  Missing keys: a Get of an absent key returns the empty string     *)
(* and ErrorNoSuchKey, a Delete of an absent key returns nil, and neither  *)
(* changes the store.                                                      *)
(***************************************************************************)
C16_MissingKey ==
    [][\A c \in Clients :
           (Accesses(c) /\ storeCalls[c].key \notin DOMAIN kvs)
               => /\ storeCalls[c].op = "Get"
                      => /\ storeCalls'[c].res =
                                [val |-> <<>>, err |-> ErrorNoSuchKey]
                         /\ kvs' = kvs
                  /\ storeCalls[c].op = "Delete"
                      => /\ storeCalls'[c].res.err = Nil
                         /\ kvs' = kvs]_vars

\* C16: a Delete of a key that was never put was made, and a Get of it
\* after that has found no such key.
C16_Witness ==
    /\ Len(wlog) = 1
    /\ wlog[1].op = "Delete"
    /\ \E c \in Clients :
           /\ storeCalls[c].pc = "out"
           /\ storeCalls[c].op = "Get"
           /\ storeCalls[c].key = wlog[1].key
           /\ storeCalls[c].res = [val |-> <<>>, err |-> ErrorNoSuchKey]

(***************************************************************************)
(* C17.  Put is idempotent: in every state of the store a Put made twice   *)
(* leaves what the first left, a Put that follows the same Put on the map  *)
(* changes nothing, and every Put returns nil.                             *)
(***************************************************************************)
C17_PutIdempotent ==
    [][/\ \A k \in StoreKeys, v \in StoreValues :
              StorePut(StorePut(kvs, k, v), k, v) = StorePut(kvs, k, v)
       /\ \A c \in Clients :
              (Accesses(c) /\ storeCalls[c].op = "Put")
                  => /\ storeCalls'[c].res.err = Nil
                     /\ (wlog # <<>> /\ wlog[Len(wlog)] =
                             [op |-> "Put", key |-> storeCalls[c].key,
                              val |-> storeCalls[c].val])
                            => kvs' = kvs]_vars

\* C17: the same Put was made twice in a row.
C17_Witness ==
    /\ Len(wlog) = 2
    /\ wlog[1].op = "Put"
    /\ wlog[2] = wlog[1]

(***************************************************************************)
(* C13.  Backpressure: the events channel never holds more than 16         *)
(* intents; a caller of WritePut / WriteDelete that has yet to send, on an *)
(* open channel, can send exactly when the channel holds fewer than 16,    *)
(* and no caller is held once its intent is sent, appended or not.         *)
(***************************************************************************)
C13_Backpressure ==
    /\ Len(events) <= 16
    /\ \A w \in Writers :
           (wr[w].pc = "added" /\ ~panicked /\ ~eventsClosed)
               => ((ENABLED WriteSend(w)) <=> Len(events) < 16)
    /\ \A w \in Writers, i \in 1..Len(enq) :
           wr[w].pc # "idle" => wr[w].ev.call # enq[i].call

\* C13: the channel is full of intents whose callers have returned, none of
\* them appended yet, and a seventeenth caller is held at its send.
C13_Witness ==
    /\ Len(events) = 16
    /\ taken = <<>>
    /\ \E w \in Writers :
           /\ wr[w].pc = "added"
           /\ wr[w].ev.call = 17
           /\ ~ENABLED WriteSend(w)
    /\ \E w \in Writers : wr[w].pc = "idle"

(***************************************************************************)
(* C14.  Monotonicity of a successful replay: when the replay loop has     *)
(* ended with a nil error, the events ReadEvents delivered carry strictly  *)
(* increasing sequence numbers, the first of them above 0, and             *)
(* lastSequence is the sequence number of the last one delivered.          *)
(***************************************************************************)
C14_ReplayMonotonic ==
    (ReplayEnded /\ err = Nil)
        => /\ \A i \in 1..(Len(applied) - 1) :
                  applied[i].Sequence < applied[i + 1].Sequence
           /\ applied # <<>>
                  => /\ applied[1].Sequence > 0
                     /\ lastSequence = applied[Len(applied)].Sequence

\* C14: a replay that delivered two records, the second's number more than
\* one above the first's, and ended without an error.
C14_Witness ==
    /\ ReplayEnded
    /\ ~ErrorSent
    /\ Len(applied) = 2
    /\ applied[2].Sequence > applied[1].Sequence + 1

(***************************************************************************)
(* C15.  Mutation request ordering: a handler has enqueued an intent only  *)
(* after its store update; a PUT or DELETE handler that has made its store *)
(* update and ended has enqueued exactly one intent, of its kind and with  *)
(* its key (and its value for PUT); a GET handler enqueues nothing.        *)
(***************************************************************************)
C15_StoreThenLog ==
    \A h \in Handlers :
        LET r == hd[h]
        IN  /\ r.sent > 0 => r.stored
            /\ r.method = "GET" => r.sent = 0
            /\ (r.method \in {"PUT", "DELETE"} /\ r.stored
                    /\ r.pc \in {"done", "panic"})
                   => /\ r.sent = 1
                      /\ \E i \in 1..Len(enq) :
                             /\ enq[i].EventType = KindOf(r.method)
                             /\ enq[i].Key = r.key
                             /\ r.method = "PUT" => enq[i].Value = r.val

\* The fields of a line: its text cut at every tab.
RECURSIVE Fields(_)
Fields(line) ==
    LET n == PrefixLen(line, {"\t"}, FALSE)
    IN  IF n = Len(line) THEN <<line>>
        ELSE <<Take(line, n)>> \o Fields(Drop(line, n + 1))

(***************************************************************************)
(* C18.  Record framing: as long as no append has failed, the file holds,  *)
(* after what it held at the start, one line for each event appended, and  *)
(* the line of an event has four tab-separated fields: its sequence        *)
(* number, its kind, its key and its value, whatever the value.            *)
(***************************************************************************)
C18_RecordFraming ==
    (\A i \in 1..Len(outcome) : outcome[i] = "ok")
        => /\ Len(AppendedLines) = Len(taken)
           /\ \A i \in 1..Len(taken) :
                  Fields(AppendedLines[i]) =
                      <<FormatUint(base + i), FormatUint(enq[i].EventType),
                        enq[i].Key, enq[i].Value>>

(***************************************************************************)
(* C19.  Append-only log: every step leaves the file as it was or with     *)
(* text added after its end; the steps of ReadEvents' goroutine and of the *)
(* replay loop leave it as it was, and a step of the worker adds what its  *)
(* append wrote of one record.                                             *)
(***************************************************************************)
C19_AppendOnly ==
    [][/\ Len(file') >= Len(file)
       /\ Take(file', Len(file)) = file
       /\ (rpc' # rpc \/ mpc' # mpc \/ outError' # outError) => file' = file
       /\ file' # file
              => /\ taken' # taken
                 /\ Drop(file', Len(file)) =
                        Written(FormatRecord(lastSequence + 1,
                                             events[1].EventType,
                                             events[1].Key, events[1].Value),
                                outcome'[Len(outcome')])]_vars

\* C19: a log that held a record at the start was replayed, and two
\* records were appended after it.
C19_Witness ==
    /\ file0 # <<>>
    /\ Len(applied) = 1
    /\ outcome = <<"ok", "ok">>
    /\ Len(LinesOf(file)) = 3
    /\ Take(file, Len(file0)) = file0

(***************************************************************************)
(* C20.  lastSequence tracks successful appends: once Run has armed the    *)
(* logger, and as long as every append either wrote its whole record or    *)
(* failed with nothing written, lastSequence is the sequence number of the *)
(* last record appended since then, or what the replay left when there is  *)
(* none; an append that failed has not advanced it.                        *)
(***************************************************************************)
C20_LastSequence ==
    (wpc # "none" /\ "torn" \notin Range(outcome))
        => lastSequence =
               IF AppendedLines = <<>> THEN base
               ELSE SeqField(AppendedLines[Len(AppendedLines)])

\* The goroutine Run started last, and the one of the call before, has an
\* intent it can append or is appending.
NewCanAppend == wpc = "recv" /\ events # <<>>
OldCanAppend ==
    \/ old.pc \in {"store", "write"}
    \/ old.pc = "recv" /\ old.events # <<>>

(***************************************************************************)
(* C21.  Single writer: at no moment can two worker goroutines append to   *)
(* the file and increment lastSequence, whatever calls the logger gets,    *)
(* a second call of Run while intents are pending included.                *)
(***************************************************************************)
C21_SingleWriter == ~(NewCanAppend /\ OldCanAppend)

(***************************************************************************)
(* C22.  Live store agrees with the log: when every handler of a run had   *)
(* returned and every intent had been appended without error, and the      *)
(* process is started again, the replay of the file, once it has ended     *)
(* without an error and before any new request, leaves the store that run  *)
(* had.                                                                    *)
(***************************************************************************)
C22_LiveMatchesLog ==
    (prev.set /\ prev.clean /\ ReplayEnded /\ ~ErrorSent /\ wlog = <<>>)
        => kvs = prev.kvs

(***************************************************************************)
(* C23.  Handlers use the armed logger: when initTransactionLogger has     *)
(* returned nil, the logger call of a PUT or DELETE handler sends the      *)
(* handler's intent on the events channel Run made; no handler ends in the *)
(* panic of a call on an unset logger (the process not being killed in     *)
(* that step).                                                             *)
(***************************************************************************)
C23_ArmedLogger ==
    [][\A h \in Handlers :
           (err = Nil /\ hd[h].pc = "log" /\ hd'[h].pc # "log"
                /\ restartsLeft' = restartsLeft)
               => /\ hd'[h].pc # "panic"
                  /\ Len(enq') = Len(enq) + 1
                  /\ events' = Append(events, enq'[Len(enq')])
                  /\ enq'[Len(enq')].Key = hd[h].key]_vars

(***************************************************************************)
(* C24.  Shutdown terminates: a call of Wait returns, a call of Close      *)
(* returns, and after Close has returned the worker goroutine ends, even   *)
(* when appends fail and nothing receives from Err() (a process that a     *)
(* send on the closed channel brought down has ended as a whole).          *)
(***************************************************************************)
C24_ShutdownTerminates ==
    /\ (cpc = "inWait") ~> (cpc # "inWait")
    /\ (cpc = "wait") ~> (cpc = "done" \/ panicked)
    /\ (cpc = "done") ~> (wpc = "done" \/ panicked)

(***************************************************************************)
(* C25.  Writes racing with Close are safe: no call of WritePut or         *)
(* WriteDelete sends on the events channel after Close has closed it (the  *)
(* send would panic), and once the worker has ended every intent sent was  *)
(* taken and either appended or its failure sent on the errors channel.    *)
(***************************************************************************)
C25_SafeClose ==
    /\ ~panicked
    /\ wpc = "done"
           => /\ Len(outcome) = Len(enq)
              /\ dones = Len(enq)

(***************************************************************************)
(* C26.  Replay terminates: whatever the log holds, the replay loop of     *)
(* initTransactionLogger ends and ReadEvents' goroutine ends with both of  *)
(* its channels closed; it is not left at a send for ever.                 *)
(***************************************************************************)
C26_ReplayTerminates ==
    <>[](/\ ReplayEnded
         /\ rpc = "done"
         /\ outErrorClosed
         /\ outEventClosed)

\* C26: the replay of a log of two lines that delivered one record and
\* reported an error for the other has ended, the goroutine with it.
C26_Witness ==
    /\ ReplayEnded
    /\ rpc = "done"
    /\ outErrorClosed /\ outEventClosed
    /\ Len(LinesOf(file0)) = 2
    /\ Len(applied) = 1
    /\ err # Nil

(***************************************************************************)
(* C27.  No carry-over: over a log of records, every event the replay      *)
(* delivers has the sequence number, the kind, the key and the value of    *)
(* its own record; a record with an empty value is delivered with an empty *)
(* Value.                                                                  *)
(***************************************************************************)
C27_NoCarryOver ==
    LET lines == LinesOf(file0)
    IN  AllRecords(lines)
            => \A i \in 1..Len(applied) :
                   LET r == RecordOf(lines[i])
                   IN  /\ applied[i].Sequence = r.seq
                       /\ applied[i].EventType = r.typ
                       /\ applied[i].Key = r.key
                       /\ applied[i].Value = r.value

=============================================================================
